---- MODULE Spec2Model ----
(***************************************************************************)
(* Model of export.py: paged export of table b_crm_timeline to a CSV file, *)
(* delivery of the file by SCP, and the checkpoint kept in last_id.txt.    *)
(* A behaviour is a sequence of non-overlapping runs of the script, with   *)
(* writers appending rows to the table at any moment.                      *)
(***************************************************************************)
EXTENDS Integers, Sequences, FiniteSets, TLC

\* ------------------------------------------------------------------ bounds
MaxId == 11        \* largest row ID a writer may insert
Gap == 9           \* a writer's ID is 1 or Gap above the largest ID so far
MaxRows == 3       \* largest number of rows the table ever holds
MaxRuns == 3       \* number of runs of the script in one behaviour
MaxBatch == 2      \* largest positive BATCH_SIZE tried

\* ------------------------------------------------------------------- state
VARIABLES
  table,           \* b_crm_timeline: the set of row IDs present
  lastIdFile,      \* content of WORKDIR/last_id.txt (Absent when no file)
  workdir,         \* CSV files in WORKDIR: timestamp name -> content
  remote,          \* files in SCP_REMOTE_DIR: name -> content
  pc,              \* position of the current run
  exit_code,       \* <<>> while running, <<code>> after the process exits
  BATCH_SIZE,      \* page size read from the environment at start-up
  last_id,         \* export(): last_id
  new_last_id,     \* export(): new_last_id
  total_exported,  \* export(): total_exported
  ts,              \* export(): ts, the name of csv_path
  writer,          \* export(): writer is not None
  runNo,           \* number of runs started so far
  run,             \* history of the current run (see NewRun)
  delivered,       \* IDs contained in some artifact whose scp.put succeeded
  prev,            \* the record of the last finished run (see Outcome)
  allOk,           \* every finished run so far returned normally
  opened,          \* what the with block of export() holds open
  config           \* what the environment gave the module-level settings

vars == <<table, lastIdFile, workdir, remote, pc, exit_code, BATCH_SIZE,
          last_id, new_last_id, total_exported, ts, writer, runNo, run,
          delivered, prev, allOk, opened, config>>

\* ---------------------------------------------------------------- helpers
\* The largest element of a set of IDs, 0 for the empty set.
SetMax(S) == IF S = {} THEN 0 ELSE CHOOSE m \in S : \A x \in S : x <= m

\* The smallest element of a non-empty set of IDs.
SetMin(S) == CHOOSE m \in S : \A x \in S : m <= x

\* ORDER BY ID: the IDs of S in ascending order.
RECURSIVE OrderById(_)
OrderById(S) ==
  IF S = {} THEN <<>> ELSE <<SetMin(S)>> \o OrderById(S \ {SetMin(S)})

\* The first n elements of a sequence (all of it when it is shorter).
Limit(s, n) == SubSeq(s, 1, IF n < Len(s) THEN n ELSE Len(s))

\* WHERE ID > %s: the strict lower bound of the query.
AboveOrEqual(id, lower) == id >= lower
Above(id, lower) == id > lower

\* SELECT * FROM b_crm_timeline WHERE ID > lower ORDER BY ID LIMIT limit,
\* for limit >= 0 (a negative LIMIT is a syntax error, see QueryError).
PageDesc(tbl, lower, limit) ==
  LET all == OrderById({id \in tbl : Above(id, lower)})
  IN  SubSeq(all, (IF limit < Len(all) THEN Len(all) - limit ELSE 0) + 1, Len(all))
Page(tbl, lower, limit) ==
  Limit(OrderById({id \in tbl : Above(id, lower)}), limit)

\* last_id = rows[-1]["ID"]
FirstRowId(rows) == rows[1]
LastRowIdPlusOne(rows) == rows[Len(rows)] + 1
NextLastId(rows) == rows[Len(rows)]

\* ------------------------------------------------- the checkpoint as text
Digits == <<"0", "1", "2", "3", "4", "5", "6", "7", "8", "9">>
Absent == <<"ENOENT">>

\* str(n) for n >= 0: the decimal digits of n.
RECURSIVE Str(_)
Str(n) == IF n < 10 THEN <<Digits[n + 1]>>
                    ELSE Str(n \div 10) \o <<Digits[(n % 10) + 1]>>

IsDigit(c) == \E d \in 1..10 : Digits[d] = c
DigitVal(c) == (CHOOSE d \in 1..10 : Digits[d] = c) - 1
IsSpace(c) == c \in {" ", "\n", "\t"}

\* str.strip(): drop white space at both ends.
RECURSIVE LStrip(_)
LStrip(s) == IF s # <<>> /\ IsSpace(s[1]) THEN LStrip(Tail(s)) ELSE s
RECURSIVE RStrip(_)
RStrip(s) == IF s # <<>> /\ IsSpace(s[Len(s)])
               THEN RStrip(SubSeq(s, 1, Len(s) - 1)) ELSE s
Strip(s) == RStrip(LStrip(s))

\* The value of a non-empty sequence of decimal digits.
RECURSIVE DigitsVal(_)
DigitsVal(s) == IF s = <<>> THEN 0
                 ELSE 10 * DigitsVal(SubSeq(s, 1, Len(s) - 1)) + DigitVal(s[Len(s)])

\* int(text): an optional sign and at least one digit; anything else raises.
IntOk(s) ==
  LET body == IF s # <<>> /\ s[1] \in {"+", "-"} THEN Tail(s) ELSE s
  IN  body # <<>> /\ \A i \in 1..Len(body) : IsDigit(body[i])
IntVal(s) ==
  IF s[1] = "-" THEN 0 - DigitsVal(Tail(s))
  ELSE IF s[1] = "+" THEN DigitsVal(Tail(s))
  ELSE DigitsVal(s)

\* read_last_id(): int(LAST_ID_FILE.read_text().strip()), 0 on any exception.
ReadLastIdZero(content) == 0
ReadLastId(content) ==
  IF content = Absent THEN 0
  ELSE IF IntOk(Strip(content)) THEN IntVal(Strip(content))
  ELSE 0

\* ----------------------------------------------------------- the artifact
HeaderOf(rows) == [kind |-> "header", id |-> rows[1]]
RowEntry(id) == [kind |-> "row", id |-> id]
RowEntries(rows) == [i \in 1..Len(rows) |-> RowEntry(rows[i])]

\* The IDs of the data rows of a CSV file, in file order.
RECURSIVE DataIds(_)
DataIds(csv) ==
  IF csv = <<>> THEN <<>>
  ELSE (IF csv[1].kind = "row" THEN <<csv[1].id>> ELSE <<>>) \o DataIds(Tail(csv))

SeqRange(s) == {s[i] : i \in 1..Len(s)}

\* --------------------------------------------------------------- the runs
Running == pc \notin {"idle", "done", "done_empty", "failed"}

NewRun(ckptText, files) ==
  [ckptBefore  |-> ckptText,  \* last_id.txt when the run started
   filesBefore |-> files,     \* names of the files in WORKDIR at the start
   start       |-> 0,         \* checkpoint read_last_id() returned
   tableAtLoad |-> {},        \* the table when the checkpoint was read
   pages       |-> <<>>,      \* fetched pages: [lower, rows], in fetch order
   csvOpened   |-> FALSE,     \* csv_path.open("w") returned in this run
   broke       |-> FALSE,     \* the loop was left by its break
   aboveAtBreak |-> {},       \* rows above last_id when the loop was left
   putOk       |-> FALSE,     \* scp.put returned in this run
   wrote       |-> FALSE,     \* write_last_id was entered in this run
   failedAt    |-> "none"]    \* the step that raised

Init ==
  /\ table = {}
  /\ lastIdFile = Absent
  /\ workdir = <<>>
  /\ remote = <<>>
  /\ pc = "idle"
  /\ exit_code = <<>>
  /\ BATCH_SIZE = 1
  /\ last_id = 0
  /\ new_last_id = 0
  /\ total_exported = 0
  /\ ts = 0
  /\ writer = FALSE
  /\ runNo = 0
  /\ run = NewRun(Absent, {})
  /\ delivered = {}
  /\ prev = [start |-> 0, outcome |-> "none", ids |-> <<>>, at |-> "none",
             csv |-> <<>>, table |-> {}]
  /\ allOk = TRUE
  /\ opened = {}
  /\ config = "ok"

\* A run that ends with outcome o now ends by a failure of scp_client()
\* or of scp.put.
TransferFailed(o) == o = "failed" /\ pc \in {"check_total", "scp_put"}

\* The record a finished run leaves in the history.
Outcome(o) ==
  [start   |-> run.start,
   outcome |-> o,
   ids     |-> IF run.csvOpened THEN DataIds(workdir[ts]) ELSE <<>>,
   \* of a run that fails in the transfer: its file, and the table when it
   \* read the checkpoint
   at      |-> IF TransferFailed(o) THEN "transfer" ELSE "none",
   csv     |-> IF TransferFailed(o) THEN workdir[ts] ELSE <<>>,
   table   |-> IF TransferFailed(o) THEN run.tableAtLoad ELSE {}]

\* ---------------------------------------------------------------- actions
\* A writer appends a row; its ID is larger than every ID in the table.
Insert(id) ==
  /\ Cardinality(table) < MaxRows
  /\ id - SetMax(table) \in {1, Gap}
  /\ table' = table \cup {id}
  /\ UNCHANGED <<lastIdFile, workdir, remote, pc, exit_code, BATCH_SIZE,
                 last_id, new_last_id, total_exported, ts, writer, runNo, run,
                 delivered, prev, allOk,
                 opened, config>>

\* The script is started: the module-level settings are evaluated.
Startup(b) ==
  /\ ~Running
  /\ runNo < MaxRuns
  /\ BATCH_SIZE' = b
  /\ config' = "ok"
  /\ runNo' = runNo + 1
  /\ run' = NewRun(lastIdFile, DOMAIN workdir)
  /\ pc' = "start"
  /\ exit_code' = <<>>
  /\ last_id' = 0 /\ new_last_id' = 0 /\ total_exported' = 0
  /\ ts' = 0 /\ writer' = FALSE
  /\ UNCHANGED <<table, lastIdFile, workdir, remote, delivered, prev, allOk,
                 opened>>

\* WORKDIR.mkdir(); last_id = read_last_id(); ts = now (runs start in
\* different seconds); total_exported = 0; new_last_id = last_id
LoadCheckpoint ==
  /\ pc = "start"
  /\ last_id' = ReadLastId(lastIdFile)
  /\ new_last_id' = last_id'
  /\ total_exported' = 0
  /\ ts' = runNo
  /\ run' = [run EXCEPT !.start = last_id', !.tableAtLoad = table]
  /\ pc' = "connect"
  /\ UNCHANGED <<table, lastIdFile, workdir, remote, exit_code, BATCH_SIZE,
                 writer, runNo, delivered, prev, allOk,
                 opened, config>>

\* with mysql_connection() as conn, conn.cursor(...) as cur
Connect ==
  /\ pc = "connect"
  /\ pc' = "open_csv"
  /\ opened' = {"conn", "cur"}
  /\ UNCHANGED <<table, lastIdFile, workdir, remote, exit_code, BATCH_SIZE,
                 last_id, new_last_id, total_exported, ts, writer, runNo, run,
                 delivered, prev, allOk,
                 config>>

\* csv_path.open("w"): the file is created, or truncated when it exists.
OpenCsv ==
  /\ pc = "open_csv"
  /\ workdir' = (ts :> <<>>) @@ workdir
  /\ writer' = FALSE
  /\ run' = [run EXCEPT !.csvOpened = TRUE]
  /\ pc' = "query"
  /\ opened' = opened \cup {"csv"}
  /\ UNCHANGED <<table, lastIdFile, remote, exit_code, BATCH_SIZE, last_id,
                 new_last_id, total_exported, ts, runNo, delivered, prev,
                 allOk,
                 config>>

FetchPageHeaderEveryPage ==
  /\ pc = "query"
  /\ BATCH_SIZE >= 0
  /\ LET rows == Page(table, last_id, BATCH_SIZE) IN
       /\ rows # <<>>
       /\ workdir' = [workdir EXCEPT ![ts] =
                        @ \o <<HeaderOf(rows)>> \o RowEntries(rows)]
       /\ writer' = TRUE
       /\ last_id' = NextLastId(rows)
       /\ new_last_id' = last_id'
       /\ total_exported' = total_exported + Len(rows)
       /\ run' = [run EXCEPT !.pages =
                    Append(@, [lower |-> last_id, rows |-> rows])]
  /\ UNCHANGED <<table, lastIdFile, remote, pc, exit_code, BATCH_SIZE, ts,
                 runNo, delivered, prev, allOk, opened, config>>

\* One turn of the loop that fetches a non-empty page and writes it.
FetchPage ==
  /\ pc = "query"
  /\ BATCH_SIZE >= 0
  /\ LET rows == Page(table, last_id, BATCH_SIZE) IN
       /\ rows # <<>>
       /\ workdir' = [workdir EXCEPT ![ts] =
                        @ \o (IF writer THEN <<>> ELSE <<HeaderOf(rows)>>)
                          \o RowEntries(rows)]
       /\ writer' = TRUE
       /\ last_id' = NextLastId(rows)
       /\ new_last_id' = last_id'
       /\ total_exported' = total_exported + Len(rows)
       /\ run' = [run EXCEPT !.pages =
                    Append(@, [lower |-> last_id, rows |-> rows])]
  /\ UNCHANGED <<table, lastIdFile, remote, pc, exit_code, BATCH_SIZE, ts,
                 runNo, delivered, prev, allOk,
                 opened, config>>

EndOfPagesKeepsOpen ==
  /\ pc = "query"
  /\ BATCH_SIZE >= 0
  /\ Page(table, last_id, BATCH_SIZE) = <<>>
  /\ pc' = "check_total"
  /\ run' = [run EXCEPT !.broke = TRUE, !.aboveAtBreak = {id \in table : id > last_id}]
  /\ UNCHANGED <<table, lastIdFile, workdir, remote, exit_code, BATCH_SIZE,
                 last_id, new_last_id, total_exported, ts, writer, runNo,
                 delivered, prev, allOk, opened, config>>

EndOnShortPage ==
  /\ pc = "query"
  /\ BATCH_SIZE >= 0
  /\ Len(Page(table, last_id, BATCH_SIZE)) < BATCH_SIZE
       \/ Page(table, last_id, BATCH_SIZE) = <<>>
  /\ pc' = "check_total"
  /\ opened' = {}
  /\ run' = [run EXCEPT !.broke = TRUE, !.aboveAtBreak = {id \in table : id > last_id}]
  /\ UNCHANGED <<table, lastIdFile, workdir, remote, exit_code, BATCH_SIZE,
                 last_id, new_last_id, total_exported, ts, writer, runNo,
                 delivered, prev, allOk, config>>

\* The turn of the loop that fetches an empty page: break, and the with
\* block closes the CSV file, the cursor and the connection.
EndOfPages ==
  /\ pc = "query"
  /\ BATCH_SIZE >= 0
  /\ Page(table, last_id, BATCH_SIZE) = <<>>
  /\ pc' = "check_total"
  /\ opened' = {}
  /\ run' = [run EXCEPT !.broke = TRUE, !.aboveAtBreak = {id \in table : id > last_id}]
  /\ UNCHANGED <<table, lastIdFile, workdir, remote, exit_code, BATCH_SIZE,
                 last_id, new_last_id, total_exported, ts, writer, runNo,
                 delivered, prev, allOk,
                 config>>

ReturnEmptyFallsThrough ==
  /\ pc = "check_total"
  /\ total_exported = 0
  /\ pc' = "scp_put"
  /\ UNCHANGED <<table, lastIdFile, workdir, remote, exit_code, BATCH_SIZE,
                 last_id, new_last_id, total_exported, ts, writer, runNo, run,
                 delivered, prev, allOk,
                 opened, config>>

\* if total_exported == 0: return  -- export() returns, the process exits 0.
ReturnEmpty ==
  /\ pc = "check_total"
  /\ total_exported = 0
  /\ pc' = "done_empty"
  /\ exit_code' = <<0>>
  /\ prev' = Outcome("done_empty")
  /\ UNCHANGED <<table, lastIdFile, workdir, remote, BATCH_SIZE, last_id,
                 new_last_id, total_exported, ts, writer, runNo, run,
                 delivered, allOk,
                 opened, config>>

ScpConnectWritesFirst ==
  /\ pc = "check_total"
  /\ total_exported # 0
  /\ lastIdFile' = Str(new_last_id)
  /\ pc' = "scp_put"
  /\ UNCHANGED <<table, workdir, remote, exit_code, BATCH_SIZE,
                 last_id, new_last_id, total_exported, ts, writer, runNo, run,
                 delivered, prev, allOk, opened, config>>

\* total_exported is not 0; with scp_client() as scp: the SSH connection
\* is made.
ScpConnect ==
  /\ pc = "check_total"
  /\ total_exported # 0
  /\ pc' = "scp_put"
  /\ UNCHANGED <<table, lastIdFile, workdir, remote, exit_code, BATCH_SIZE,
                 last_id, new_last_id, total_exported, ts, writer, runNo, run,
                 delivered, prev, allOk,
                 opened, config>>

ScpPutIgnoresError ==
  /\ pc = "scp_put"
  /\ \/ /\ remote' = (ts :> workdir[ts]) @@ remote
        /\ delivered' = delivered \cup SeqRange(DataIds(workdir[ts]))
        /\ run' = [run EXCEPT !.putOk = TRUE]
     \/ UNCHANGED <<remote, delivered, run>>
  /\ pc' = "write_open"
  /\ UNCHANGED <<table, lastIdFile, workdir, exit_code, BATCH_SIZE, last_id,
                 new_last_id, total_exported, ts, writer, runNo, prev, allOk,
                 opened, config>>

\* scp.put(str(csv_path), remote_path=...) returns.
ScpPut ==
  /\ pc = "scp_put"
  /\ remote' = (ts :> workdir[ts]) @@ remote
  /\ delivered' = delivered \cup SeqRange(DataIds(workdir[ts]))
  /\ run' = [run EXCEPT !.putOk = TRUE]
  /\ pc' = "write_open"
  /\ UNCHANGED <<table, lastIdFile, workdir, exit_code, BATCH_SIZE, last_id,
                 new_last_id, total_exported, ts, writer, runNo, prev, allOk,
                 opened, config>>

\* write_last_id: LAST_ID_FILE is opened for writing, which truncates it.
WriteOpen ==
  /\ pc = "write_open"
  /\ lastIdFile' = <<>>
  /\ run' = [run EXCEPT !.wrote = TRUE]
  /\ pc' = "write_data"
  /\ UNCHANGED <<table, workdir, remote, exit_code, BATCH_SIZE, last_id,
                 new_last_id, total_exported, ts, writer, runNo, delivered,
                 prev, allOk,
                 opened, config>>

\* write_last_id: str(last_id) is written and the file closed; export()
\* returns and the process exits 0.
WriteData ==
  /\ pc = "write_data"
  /\ lastIdFile' = Str(new_last_id)
  /\ pc' = "done"
  /\ exit_code' = <<0>>
  /\ prev' = Outcome("done")
  /\ UNCHANGED <<table, workdir, remote, BATCH_SIZE, last_id, new_last_id,
                 total_exported, ts, writer, runNo, run, delivered, allOk,
                 opened, config>>

\* The steps in which an exception can be raised (or the process killed)
\* without any further change of the files.
CanFail ==
  \/ pc \in {"start", "connect", "open_csv", "query", "scp_put", "write_open"}
  \/ pc = "check_total" /\ total_exported # 0

FailRemovesCsv ==
  /\ CanFail
  /\ pc' = "failed"
  /\ exit_code' = <<1>>
  /\ run' = [run EXCEPT !.failedAt = pc]
  /\ prev' = Outcome("failed")
  /\ allOk' = FALSE
  /\ workdir' = [n \in DOMAIN workdir \ {ts} |-> workdir[n]]
  /\ opened' = {}
  /\ UNCHANGED <<table, lastIdFile, remote, BATCH_SIZE, last_id,
                 new_last_id, total_exported, ts, writer, runNo, delivered,
                 config>>

FailExitsZero ==
  /\ CanFail
  /\ pc' = "failed"
  /\ exit_code' = <<0>>
  /\ opened' = {}
  /\ run' = [run EXCEPT !.failedAt = pc]
  /\ prev' = Outcome("failed")
  /\ allOk' = FALSE
  /\ UNCHANGED <<table, lastIdFile, workdir, remote, BATCH_SIZE, last_id,
                 new_last_id, total_exported, ts, writer, runNo, delivered,
                 config>>

\* A step raises: the exception leaves export() and the process exits 1.
Fail ==
  /\ CanFail
  /\ pc' = "failed"
  /\ exit_code' = <<1>>
  /\ run' = [run EXCEPT !.failedAt = pc]
  /\ prev' = Outcome("failed")
  /\ allOk' = FALSE
  /\ opened' = {}
  /\ UNCHANGED <<table, lastIdFile, workdir, remote, BATCH_SIZE, last_id,
                 new_last_id, total_exported, ts, writer, runNo, delivered,
                 config>>

\* LIMIT with a negative number is rejected by the server: execute() raises.
QueryError ==
  /\ pc = "query"
  /\ BATCH_SIZE < 0
  /\ pc' = "failed"
  /\ exit_code' = <<1>>
  /\ run' = [run EXCEPT !.failedAt = "limit"]
  /\ prev' = Outcome("failed")
  /\ allOk' = FALSE
  /\ opened' = {}
  /\ UNCHANGED <<table, lastIdFile, workdir, remote, BATCH_SIZE, last_id,
                 new_last_id, total_exported, ts, writer, runNo, delivered,
                 config>>

\* write_last_id is interrupted after the file was truncated: n characters
\* of the new value have reached the file.
WriteInterrupted(n) ==
  /\ pc = "write_data"
  /\ n < Len(Str(new_last_id))
  /\ lastIdFile' = SubSeq(Str(new_last_id), 1, n)
  /\ pc' = "failed"
  /\ exit_code' = <<1>>
  /\ run' = [run EXCEPT !.failedAt = "write_data"]
  /\ prev' = Outcome("failed")
  /\ allOk' = FALSE
  /\ UNCHANGED <<table, workdir, remote, BATCH_SIZE, last_id, new_last_id,
                 total_exported, ts, writer, runNo, delivered,
                 opened, config>>

\* The values of BATCH_SIZE tried: int() accepts any integer.
BatchSizes == {0 - 1, 0} \cup (1..MaxBatch)

Next ==
  \/ \E id \in 1..MaxId : Insert(id)
  \/ \E b \in BatchSizes : Startup(b)
  \/ LoadCheckpoint
  \/ Connect
  \/ OpenCsv
  \/ FetchPage
  \/ EndOfPages
  \/ ReturnEmpty
  \/ ScpConnect
  \/ ScpPut
  \/ WriteOpen
  \/ WriteData
  \/ Fail
  \/ QueryError
  \/ \E n \in 0..Len(Str(MaxId)) : WriteInterrupted(n)

Spec == Init /\ [][Next]_vars

\* --------------------------------------------------------------- progress
\* A step of the running script. The script is one sequential process and
\* every call it makes returns or raises, so a run that can take a step
\* takes one.
RunStep ==
  \/ LoadCheckpoint
  \/ Connect
  \/ OpenCsv
  \/ FetchPage
  \/ EndOfPages
  \/ ReturnEmpty
  \/ ScpConnect
  \/ ScpPut
  \/ WriteOpen
  \/ WriteData
  \/ QueryError

MaxLiveRuns == 1   \* runs of the script in a behaviour checked for progress

NextLive ==
  \/ \E id \in 1..MaxId : Insert(id)
  \/ \E b \in BatchSizes : runNo < MaxLiveRuns /\ Startup(b)
  \/ RunStep
  \/ Fail
  \/ \E n \in 0..Len(Str(MaxId)) : WriteInterrupted(n)

SpecLive == Init /\ [][NextLive]_vars /\ WF_vars(RunStep)

\* ------------------------------------------- read_last_id on any content
MaxText == 3       \* longest content of last_id.txt tried
Chars == {"0", "1", "-", " ", "x"}
FileTexts == {Absent} \cup UNION {[1..n -> Chars] : n \in 0..MaxText}

\* last_id.txt holds any text when the script is started.
InitRead ==
  /\ lastIdFile \in FileTexts
  /\ table = {}
  /\ workdir = <<>>
  /\ remote = <<>>
  /\ pc = "idle"
  /\ exit_code = <<>>
  /\ BATCH_SIZE = 1
  /\ last_id = 0
  /\ new_last_id = 0
  /\ total_exported = 0
  /\ ts = 0
  /\ writer = FALSE
  /\ runNo = 0
  /\ run = NewRun(lastIdFile, {})
  /\ delivered = {}
  /\ prev = [start |-> 0, outcome |-> "none", ids |-> <<>>, at |-> "none",
             csv |-> <<>>, table |-> {}]
  /\ allOk = TRUE
  /\ opened = {}
  /\ config = "ok"

NextRead ==
  \/ \E b \in BatchSizes : Startup(b)
  \/ LoadCheckpoint

SpecRead == InitRead /\ [][NextRead]_vars

\* ------------------------------------------------ settings that are wrong
MaxCfgRuns == 1    \* runs of the script with settings drawn freely

\* SCP_HOST is not set: os.getenv gives None and nothing checks it.
\* SCP_PORT is not a number: int() raises while the module is loaded.
Configs == {"ok", "no_scp_host", "bad_scp_port"}

\* The script is started with settings c that the module accepts.
StartupCfg(b, c) ==
  /\ ~Running
  /\ runNo < MaxCfgRuns
  /\ c # "bad_scp_port"
  /\ BATCH_SIZE' = b
  /\ config' = c
  /\ runNo' = runNo + 1
  /\ run' = NewRun(lastIdFile, DOMAIN workdir)
  /\ pc' = "start"
  /\ exit_code' = <<>>
  /\ last_id' = 0 /\ new_last_id' = 0 /\ total_exported' = 0
  /\ ts' = 0 /\ writer' = FALSE
  /\ UNCHANGED <<table, lastIdFile, workdir, remote, delivered, prev, allOk,
                 opened>>

\* The script is started with SCP_PORT not a number: int() raises at line
\* 63, outside the try of __main__; the interpreter prints the traceback
\* and exits 1 before export() is called.
SettingsError(b) ==
  /\ ~Running
  /\ runNo < MaxCfgRuns
  /\ BATCH_SIZE' = b
  /\ config' = "bad_scp_port"
  /\ runNo' = runNo + 1
  /\ run' = [NewRun(lastIdFile, DOMAIN workdir) EXCEPT !.failedAt = "settings"]
  /\ pc' = "failed"
  /\ exit_code' = <<1>>
  /\ last_id' = 0 /\ new_last_id' = 0 /\ total_exported' = 0
  /\ ts' = 0 /\ writer' = FALSE
  /\ allOk' = FALSE
  /\ UNCHANGED <<table, lastIdFile, workdir, remote, delivered, prev, opened>>

NextCfg ==
  \/ \E id \in 1..MaxId : Insert(id)
  \/ \E b \in BatchSizes, c \in Configs : StartupCfg(b, c)
  \/ \E b \in BatchSizes : SettingsError(b)
  \/ LoadCheckpoint
  \/ Connect
  \/ OpenCsv
  \/ FetchPage
  \/ EndOfPages
  \/ ReturnEmpty
  \/ ScpConnect
  \/ ScpPut
  \/ WriteOpen
  \/ WriteData
  \/ Fail
  \/ QueryError
  \/ \E n \in 0..Len(Str(MaxId)) : WriteInterrupted(n)

SpecCfg == Init /\ [][NextCfg]_vars

\* ------------------------------------------------ the loop as a function
\* The loop of export() run to its end on a table that does not change:
\* st holds csv (the file), new_last_id, total_exported and writer.
RECURSIVE ExportLoop(_, _, _, _)
ExportLoop(tbl, last, limit, st) ==
  LET rows == Page(tbl, last, limit) IN
    IF rows = <<>> THEN st
    ELSE ExportLoop(tbl, NextLastId(rows), limit,
           [csv |-> st.csv \o (IF st.writer THEN <<>> ELSE <<HeaderOf(rows)>>)
                           \o RowEntries(rows),
            new_last_id |-> NextLastId(rows),
            total_exported |-> st.total_exported + Len(rows),
            writer |-> TRUE])

\* export() up to the end of the loop, from checkpoint ckpt.
Export(tbl, ckpt, limit) ==
  ExportLoop(tbl, ckpt, limit,
             [csv |-> <<>>, new_last_id |-> ckpt, total_exported |-> 0,
              writer |-> FALSE])

\* ----------------------------------------------------------------- claims
Terminal == pc \in {"done", "done_empty", "failed"}

\* The rows of all pages of the current run, in fetch order.
RECURSIVE Concat(_)
Concat(pages) ==
  IF pages = <<>> THEN <<>> ELSE pages[1].rows \o Concat(Tail(pages))

\* The CSV file of the current run.
Csv == workdir[ts]

\* C1: in every run, last_id.txt is written only after scp.put has returned
\* in the same run: write_last_id is never entered, and the file never
\* changes, before or without a successful delivery in that run.
C1_CheckpointAfterUpload ==
  /\ [](pc \in {"write_open", "write_data", "done"} \/ run.wrote => run.putOk)
  /\ [][lastIdFile' # lastIdFile =>
          run.putOk /\ pc \in {"write_open", "write_data"}]_vars
C1_Witness ==
  pc = "done" /\ run.putOk /\ lastIdFile = Str(new_last_id) /\ runNo > 1

\* C2: whenever the checkpoint reads as N, every table row with 0 < ID <= N
\* has been contained in an artifact whose transfer succeeded, whatever
\* step earlier runs failed or were interrupted in.
C2_AtLeastOnce ==
  \A id \in table : (0 < id /\ id <= ReadLastId(lastIdFile)) => id \in delivered
C2_Witness ==
  /\ pc = "failed" /\ run.failedAt = "write_data"
  /\ lastIdFile # <<>>
  /\ \E id \in table : id <= ReadLastId(lastIdFile)
  /\ \E id \in table : id > ReadLastId(lastIdFile)

\* C3: the value read_last_id() returns at the start of a run is never less
\* than the value it returned at the start of the run before, whatever the
\* outcome of that run was.
C3_ReadNeverDecreases ==
  (pc = "connect" /\ prev.outcome # "none") => run.start >= prev.start

\* C4: in a sequence of successful runs, the checkpoint read at the start of
\* a run is the highest row ID written to the artifact of the run before,
\* and the checkpoint that run read when it wrote no rows.
C4_NextStartsAtHighest ==
  (pc = "connect" /\ allOk /\ prev.outcome # "none") =>
     run.start = (IF prev.ids = <<>> THEN prev.start
                  ELSE SetMax(SeqRange(prev.ids)))
C4_Witness ==
  /\ pc = "connect" /\ allOk /\ prev.outcome = "done" /\ run.start >= 10
  /\ prev.start > 0

\* C5: the rows of the pages of a run, in fetch order, have strictly
\* increasing IDs, all above the checkpoint the run read; the lower bound of
\* the first page is that checkpoint and the lower bound of every later
\* page is the ID of the last row of the page before.
C5_PagesIncrease ==
  LET all == Concat(run.pages) IN
    /\ \A i \in 1..Len(all) : all[i] > run.start
    /\ \A i \in 1..Len(all) - 1 : all[i] < all[i + 1]
    /\ \A k \in 1..Len(run.pages) :
         run.pages[k].lower =
           IF k = 1 THEN run.start
           ELSE run.pages[k - 1].rows[Len(run.pages[k - 1].rows)]
C5_Witness ==
  /\ Len(run.pages) >= 2
  /\ Len(run.pages[1].rows) = 2
  /\ run.start > 0

\* C6: a run that finishes successfully with starting checkpoint C and new
\* checkpoint M, while writers append rows, has written exactly the table
\* rows with C < ID <= M, each once, in ascending order.
C6_CompleteUnderInserts ==
  pc = "done" =>
    DataIds(Csv) =
      OrderById({id \in table :
                   run.start < id /\ id <= ReadLastId(lastIdFile)})
C6_Witness ==
  /\ pc = "done"
  /\ Len(run.pages) >= 2
  /\ \E id \in SeqRange(DataIds(Csv)) : id \notin run.tableAtLoad
  /\ \E id \in SeqRange(DataIds(Csv)) : id \in run.tableAtLoad

\* C7: for a table that does not change and a given checkpoint, the file
\* and the new checkpoint the loop produces are the ones it produces with
\* every positive batch size.
C7_BatchSizeInvariance ==
  (pc = "check_total" /\ BATCH_SIZE > 0 /\ table = run.tableAtLoad) =>
     \A b \in 1..(MaxRows + 1) :
        /\ Csv = Export(table, run.start, b).csv
        /\ new_last_id = Export(table, run.start, b).new_last_id
C7_Witness ==
  /\ pc = "check_total" /\ BATCH_SIZE = 2 /\ table = run.tableAtLoad
  /\ Len(run.pages) = 2 /\ run.start > 0

\* C8: a run during which the table has no row above the checkpoint N it
\* read makes no transfer, does not enter write_last_id, leaves the
\* checkpoint at N, and when no step raises it returns normally with
\* exit code 0.
C8_EmptyCase ==
  (pc \notin {"idle", "start"} /\ \A id \in table : id <= run.start) =>
     /\ pc \notin {"scp_put", "write_open", "write_data", "done"}
     /\ ~run.putOk /\ ~run.wrote
     /\ total_exported = 0
     /\ lastIdFile = run.ckptBefore
     /\ ReadLastId(lastIdFile) = run.start
     /\ (Terminal /\ run.failedAt = "none") =>
           (pc = "done_empty" /\ exit_code = <<0>>)
C8_Witness ==
  /\ pc = "done_empty" /\ exit_code = <<0>> /\ BATCH_SIZE > 0
  /\ run.start > 0 /\ \A id \in table : id <= run.start

\* C9: a run that finds no row above the checkpoint creates no file in
\* WORKDIR: the files there after the run are the files before it.
C9_NoFileCreated ==
  (pc = "done_empty" /\ \A id \in table : id <= run.start) =>
     DOMAIN workdir = run.filesBefore

\* C10: when the SSH connection or scp.put fails, the process exits with a
\* non-zero code, the CSV file of the run is in WORKDIR with its header and
\* every row fetched, and last_id.txt is as it was before the run.
C10_TransferError ==
  (pc = "failed" /\ run.failedAt \in {"check_total", "scp_put"}) =>
     /\ exit_code # <<0>> /\ exit_code # <<>>
     /\ ts \in DOMAIN workdir
     /\ Csv = <<HeaderOf(run.pages[1].rows)>> \o RowEntries(Concat(run.pages))
     /\ SeqRange(DataIds(Csv)) =
          {id \in table : run.start < id /\ id <= new_last_id}
     /\ lastIdFile = run.ckptBefore
C10_Witness ==
  /\ pc = "failed" /\ run.failedAt = "scp_put"
  /\ Len(run.pages) >= 2 /\ run.ckptBefore # Absent

\* C11: when the database connection or a page query fails, the process
\* exits with a non-zero code, no CSV file of the run is left in WORKDIR,
\* and last_id.txt is as it was before the run.
C11_DataSourceError ==
  (pc = "failed" /\ run.failedAt \in {"connect", "query", "limit"}) =>
     /\ exit_code # <<0>> /\ exit_code # <<>>
     /\ DOMAIN workdir = run.filesBefore
     /\ lastIdFile = run.ckptBefore

\* C12: once write_last_id has been entered, last_id.txt holds at every
\* instant either the complete old text or the complete new text.
C12_AtomicWrite ==
  run.wrote => lastIdFile \in {run.ckptBefore, Str(new_last_id)}

\* C13: the process exits 0 exactly when the run delivered the artifact and
\* wrote the new checkpoint, or left the loop having fetched no row; a run
\* in which a step raised exits with a non-zero code.
C13_ExitContract ==
  LET delivered_and_saved ==
        /\ run.putOk /\ run.wrote
        /\ lastIdFile = Str(new_last_id)
        /\ remote[ts] = Csv
      zero_rows == run.broke /\ run.pages = <<>> /\ total_exported = 0
  IN  /\ (exit_code # <<>>) <=> Terminal
      /\ Terminal =>
           /\ (exit_code = <<0>>) <=> (delivered_and_saved \/ zero_rows)
           /\ (run.failedAt # "none") <=> (exit_code = <<1>>)
           /\ exit_code \in {<<0>>, <<1>>}
C13_Witness ==
  /\ pc = "failed" /\ exit_code = <<1>> /\ run.failedAt = "write_data"
  /\ run.putOk /\ runNo > 1

\* C14: read_last_id() returns the integer last_id.txt holds, and 0 when
\* the file is absent or does not parse; what it returns is never negative.
C14_ReadLastId ==
  pc = "connect" =>
     /\ run.start >= 0
     /\ (lastIdFile # Absent /\ IntOk(Strip(lastIdFile))) =>
           run.start = IntVal(Strip(lastIdFile))
     /\ (lastIdFile = Absent \/ ~IntOk(Strip(lastIdFile))) => run.start = 0

\* C15: when a required connection setting is missing or invalid, the run
\* fails before any work: no page is queried, no CSV file is created and
\* no transfer is started.
C15_ConfigError ==
  config # "ok" =>
     /\ run.pages = <<>> /\ ~run.broke
     /\ ~run.csvOpened /\ DOMAIN workdir = run.filesBefore
     /\ pc \notin {"scp_put", "write_open", "write_data", "done", "done_empty"}

\* C16: with a positive batch size and finitely many rows appended, a run
\* in the loop eventually fetches an empty page or fails, and then ends;
\* the loop is left normally only on an empty page, and after every page
\* with rows, short or not, the next step of the run is another query.
C16_Termination ==
  /\ (pc = "query" /\ BATCH_SIZE > 0) ~> (run.broke \/ pc = "failed")
  /\ (pc = "query" /\ BATCH_SIZE > 0) ~> Terminal
  /\ [][(pc = "query" /\ pc' = "check_total") =>
          (Page(table, last_id, BATCH_SIZE) = <<>> /\ run'.broke)]_vars
  /\ [][(pc = "query" /\ run'.pages # run.pages) =>
          (pc' = "query" /\ ~run'.broke)]_vars
C16_Witness ==
  /\ run.broke /\ BATCH_SIZE = 2 /\ Terminal
  /\ Len(run.pages) >= 2
  /\ Len(run.pages[Len(run.pages)].rows) < BATCH_SIZE

\* The step of a run the script is in: 1 load checkpoint, 2 export,
\* 3 transfer, 4 advance checkpoint, 5 ended.
Stage(p) ==
  CASE p = "idle" -> 0
    [] p = "start" -> 1
    [] p \in {"connect", "open_csv", "query", "check_total"} -> 2
    [] p = "scp_put" -> 3
    [] p \in {"write_open", "write_data"} -> 4
    [] OTHER -> 5

\* C17: from the moment the loop is left, and so before and during the
\* transfer, the CSV file is closed with every fetched row in it and the
\* cursor and the connection are released; the file does not change
\* afterwards; within a run the steps load, export, transfer, advance are
\* taken in this order, each entered from the one before, none re-entered.
C17_ClosedBeforeTransfer ==
  /\ [](pc \in {"check_total", "scp_put", "write_open", "write_data", "done"} =>
          /\ opened = {}
          /\ run.broke
          /\ DataIds(Csv) = Concat(run.pages))
  /\ [][(pc \in {"check_total", "scp_put", "write_open", "write_data"}) =>
          (workdir' = workdir)]_vars
  /\ [][(runNo' = runNo) =>
          (/\ Stage(pc') >= Stage(pc)
           /\ Stage(pc') \in {Stage(pc), Stage(pc) + 1, 5})]_vars
C17_Witness ==
  /\ pc = "scp_put" /\ opened = {} /\ Len(run.pages) >= 2 /\ runNo > 1

\* C18: the CSV file of a run that fetched a page with rows starts with one
\* header, taken from the first row of the first page, and holds only data
\* rows after it; the file of a run that fetched no such page is empty.
C18_HeaderOnce ==
  run.csvOpened =>
    IF run.pages = <<>> THEN Csv = <<>>
    ELSE /\ Len(Csv) >= 2
         /\ Csv[1] = [kind |-> "header", id |-> run.pages[1].rows[1]]
         /\ \A i \in 2..Len(Csv) : Csv[i].kind = "row"
C18_Witness ==
  /\ pc = "check_total" /\ Len(run.pages) >= 2 /\ Len(Csv) = 4
  /\ run.start > 0

\* C19: the run after a run whose delivery failed reads the same checkpoint,
\* and, when no row was inserted since the failed run read it and the batch
\* size is positive, ends its loop with a file equal to the failed run's.
C19_RerunAfterTransferFailure ==
  (Running /\ pc # "start" /\ prev.outcome = "failed"
     /\ prev.at = "transfer") =>
     /\ run.start = prev.start
     /\ (pc = "check_total" /\ BATCH_SIZE > 0 /\ table = prev.table) =>
           (Csv = prev.csv /\ Csv # <<>>)
C19_Witness ==
  /\ pc = "check_total" /\ BATCH_SIZE > 0
  /\ prev.outcome = "failed" /\ prev.at = "transfer"
  /\ table = prev.table
  /\ run.start > 0 /\ Len(Csv) >= 3

\* C20: whatever integer BATCH_SIZE is, a run returns normally as a run
\* with zero rows only if the table held no row above the checkpoint when
\* its last page was queried.
C20_ZeroRowRun ==
  (pc = "done_empty" /\ exit_code = <<0>>) =>
     /\ run.aboveAtBreak = {}
     /\ last_id = run.start

TypeOK ==
  /\ table \subseteq 1..MaxId
  /\ pc \in {"idle", "start", "connect", "open_csv", "query",
             "check_total", "scp_put", "write_open",
             "write_data", "done", "done_empty", "failed"}
  /\ last_id \in 0..MaxId /\ new_last_id \in 0..MaxId
  /\ total_exported \in 0..MaxRows

====
